---- MODULE Spec2Model ----
(***************************************************************************)
(* asciinemaster: a shell-like script is split into blocks, every block is *)
(* typed into an Asciinema cast (type_input) and executed (type_output),   *)
(* and all events are stamped by the typist's clock self.typist.ts.        *)
(*                                                                         *)
(* Texts and lines are sequences of one-character strings.  The clock is   *)
(* counted in milliseconds (the source uses float seconds): 0.01 s is 10.  *)
(* A written line of the cast is a record; ts and data are what            *)
(* json.dumps([ts, 'o', data]) puts in the file, while src, blk and ln     *)
(* only remember which statement wrote it (history, not in the file).      *)
(***************************************************************************)
EXTENDS Integers, Sequences, FiniteSets, TLC

VARIABLES
    text,         \* content of the input script
    typing_mode,  \* record_screencast(typing_mode=...)
    with_ansi,    \* record_screencast(with_ansi=...)
    readable,     \* whether open(input_path) succeeds
    pc,           \* position of the session
    out,          \* lines written to the output file f, in write order
    ts,           \* self.typist.ts
    blocks,       \* list(block_iter(content))
    reblocks,     \* blocks of the re-joined text (segmentation only)
    blockIdx,     \* index of the block of the for loop of record_screencast
    lineIdx,      \* enumerate(block) position of type_input, 1-based
    stage,        \* position inside the timed_type generator of one line
    charIdx,      \* number of characters of the line already yielded
    pending,      \* output lines of the executed block not yet written
    ran,          \* whether type_output has executed the current block
    calls,        \* history: the type_input / type_output calls made so far
    printed,      \* history: characters of command output captured so far
    zeros,        \* history: random delays drawn so far that were exactly 0
    marks,        \* history: the clock at each call and after each command
    session,      \* number of record_screencast calls made on this Caster
    endClock,     \* history: the clock when the previous recording ended
    ac_header,    \* self.ac_header
    prev_header,  \* history: self.ac_header before the last set_header call
    header_arg,   \* the header= overrides given to set_header
    environ,      \* terminal size and os.environ of the process
    wallclock     \* datetime.now(), in whole seconds

vars == <<text, typing_mode, with_ansi, readable, pc, out, ts, blocks,
          reblocks, blockIdx, lineIdx, stage, charIdx, pending, ran, calls,
          printed, zeros, marks, session, endClock, ac_header, prev_header,
          header_arg, environ, wallclock>>

\* ---------------------------------------------------------------- bounds
MaxScriptLen == 4      \* characters of a recorded script
MaxTextLen == 6        \* characters of a text given to block_iter alone
MaxOutLen == 1         \* characters the commands of one session print in all
MaxZeroDelays == 1     \* draws of random.random() in one session that are 0.0
MaxRecordings == 2     \* calls of record_screencast on one Caster
MaxTicks == 2          \* seconds the wall clock advances between set_header calls

\* ------------------------------------------------------------- constants
OutputPace == 10       \* self.typist.ts += 0.01
DelayLimit == 100      \* random.random() / 10.0 < 0.1
Version == 2           \* version=2
IdleTimeLimit == 4     \* idle_time_limit=4.0

NL == "\n"
CR == "\r"
CRLF == <<CR, NL>>

\* str.splitlines() breaks at these (of the characters the model uses)
LineBreaks == {"\n", "\f"}
\* characters str.strip() removes (of the characters the model uses)
Whitespace == {" ", "\t", "\n", "\r", "\f"}

ScriptAlphabet == {"a", "#", " ", "\n"}
TextAlphabet == {"a", " ", "\n", "\f"}
OutAlphabet == {"h", "\n"}

Strings(alphabet, n) == UNION {[1..k -> alphabet] : k \in 0..n}

\* delays random.random() / 10.0 can return, in ms: the ends of [0, 100)
HumanDelays == {0, DelayLimit - 1}
\* time.time() - t0: the wall clock is not monotonic, so the measured
\* duration of a command is negative when the clock was set back meanwhile
ElapsedTimes == {-20, 35}

\* ------------------------------------------------------------ set_header
\* a dict is a function from its keys; the dict without keys
EmptyDict == [k \in {} |-> 0]

\* d.update(h)
dict_update(d, h) ==
    [k \in DOMAIN d \cup DOMAIN h |-> IF k \in DOMAIN h THEN h[k] ELSE d[k]]

\* os.environ.get(k, default)
os_environ_get(environment, k, default) ==
    IF k \in DOMAIN environment THEN environment[k] ELSE default

\* the process environments tried: a terminal size and os.environ
TerminalSizes == {<<80, 24>>, <<120, 40>>}
EnvironVars ==
    UNION {[names -> {"/bin/zsh"}] : names \in SUBSET {"SHELL", "TERM"}}
Environs == [size : TerminalSizes, vars : EnvironVars]
DefaultEnviron == [size |-> <<80, 24>>, vars |-> EmptyDict]

\* the header= overrides tried
OverrideValue(k) ==
    IF k = "width" THEN 132 ELSE IF k = "timestamp" THEN 7 ELSE 1
Overrides ==
    {[k \in keys |-> OverrideValue(k)] : keys \in SUBSET {"width", "timestamp", "title"}}

set_header_keep(old, header, env, now) ==
    dict_update(
        IF DOMAIN old # {} THEN old
        ELSE [version |-> Version,
              width |-> env.size[1],
              height |-> env.size[2],
              timestamp |-> now,
              idle_time_limit |-> IdleTimeLimit,
              env |-> [SHELL |-> os_environ_get(env.vars, "SHELL", "/bin/bash"),
                       TERM |-> os_environ_get(env.vars, "TERM", "xterm-256color")]],
        header)

\* lines 171-184: self.ac_header is a new dict (the old one, old, is
\* dropped), then updated with the overrides
set_header(old, header, env, now) ==
    dict_update(
        [version |-> Version,
         width |-> env.size[1],
         height |-> env.size[2],
         timestamp |-> now,
         idle_time_limit |-> IdleTimeLimit,
         env |-> [SHELL |-> os_environ_get(env.vars, "SHELL", "/bin/bash"),
                  TERM |-> os_environ_get(env.vars, "TERM", "xterm-256color")]],
        header)

\* a clock mark of the history
Mark(ev, b, t) == [ev |-> ev, blk |-> b, clock |-> t]

\* ------------------------------------------------------------ block_iter
RECURSIVE split_loop(_, _, _, _)
split_loop(t, seps, cur, acc) ==
    IF t = <<>> THEN <<acc, cur>>
    ELSE IF Head(t) \in seps
         THEN split_loop(Tail(t), seps, <<>>, Append(acc, cur))
         ELSE split_loop(Tail(t), seps, Append(cur, Head(t)), acc)

\* str.splitlines(): no empty last line after a final line break
splitlines(t) ==
    LET r == split_loop(t, LineBreaks, <<>>, <<>>)
    IN  IF r[2] = <<>> THEN r[1] ELSE Append(r[1], r[2])

\* str.split('\n'): the piece after the last separator is kept, even empty
split(t, sep) ==
    LET r == split_loop(t, {sep}, <<>>, <<>>)
    IN  Append(r[1], r[2])

RECURSIVE join(_, _)
\* sep.join(parts)
join(parts, sep) ==
    IF parts = <<>> THEN <<>>
    ELSE IF Len(parts) = 1 THEN parts[1]
    ELSE parts[1] \o sep \o join(Tail(parts), sep)

RECURSIVE block_loop_no_tail(_, _, _)
block_loop_no_tail(lines, block, yielded) ==
    IF lines = <<>>
    THEN yielded
    ELSE IF Head(lines) # <<>>
         THEN block_loop_no_tail(Tail(lines), Append(block, Head(lines)), yielded)
         ELSE block_loop_no_tail(Tail(lines), <<>>, Append(yielded, block))

RECURSIVE block_loop_keep_block(_, _, _)
block_loop_keep_block(lines, block, yielded) ==
    IF lines = <<>>
    THEN IF block # <<>> THEN Append(yielded, block) ELSE yielded
    ELSE IF Head(lines) # <<>>
         THEN block_loop_keep_block(Tail(lines), Append(block, Head(lines)), yielded)
         ELSE block_loop_keep_block(Tail(lines), block, Append(yielded, block))

RECURSIVE block_loop(_, _, _)
\* the while loop of block_iter and the final "if block: yield block"
block_loop(lines, block, yielded) ==
    IF lines = <<>>
    THEN IF block # <<>> THEN Append(yielded, block) ELSE yielded
    ELSE IF Head(lines) # <<>>
         THEN block_loop(Tail(lines), Append(block, Head(lines)), yielded)
         ELSE block_loop(Tail(lines), <<>>, Append(yielded, block))

\* list(block_iter(text))
block_iter(t) == block_loop(splitlines(t), <<>>, <<>>)

\* ----------------------------------------------- segmentation on its own
SegInit ==
    /\ text \in Strings(TextAlphabet, MaxTextLen)
    /\ typing_mode = "human"
    /\ with_ansi = FALSE
    /\ readable = TRUE
    /\ pc = "SegInput"
    /\ out = <<>>
    /\ ts = 0
    /\ blocks = <<>>
    /\ reblocks = <<>>
    /\ blockIdx = 0
    /\ lineIdx = 0
    /\ stage = "start"
    /\ charIdx = 0
    /\ pending = <<>>
    /\ ran = FALSE
    /\ calls = <<>>
    /\ printed = 0
    /\ zeros = 0
    /\ marks = <<>>
    /\ session = 0
    /\ endClock = 0
    /\ ac_header = EmptyDict
    /\ prev_header = EmptyDict
    /\ header_arg = EmptyDict
    /\ environ = DefaultEnviron
    /\ wallclock = 0

\* the lines of the blocks with one blank line between consecutive blocks
RECURSIVE blocks_lines(_)
blocks_lines(bs) ==
    IF bs = <<>> THEN <<>>
    ELSE IF Len(bs) = 1 THEN bs[1]
    ELSE bs[1] \o << <<>> >> \o blocks_lines(Tail(bs))

rejoin(bs) == join(blocks_lines(bs), <<NL>>)

Segment ==
    /\ pc = "SegInput"
    /\ blocks' = block_iter(text)
    /\ pc' = "Segmented"
    /\ UNCHANGED <<text, typing_mode, with_ansi, readable, out, ts, reblocks,
                   blockIdx, lineIdx, stage, charIdx, pending, ran, calls, printed, zeros>>
    /\ UNCHANGED <<marks, session, endClock, ac_header,
                   prev_header, header_arg, environ, wallclock>>

Resegment ==
    /\ pc = "Segmented"
    /\ reblocks' = block_iter(rejoin(blocks))
    /\ pc' = "Resegmented"
    /\ UNCHANGED <<text, typing_mode, with_ansi, readable, out, ts, blocks,
                   blockIdx, lineIdx, stage, charIdx, pending, ran, calls, printed, zeros>>
    /\ UNCHANGED <<marks, session, endClock, ac_header,
                   prev_header, header_arg, environ, wallclock>>

SegNext == Segment \/ Resegment

SegSpec == SegInit /\ [][SegNext]_vars

\* ------------------------------------------------- set_header on its own
HdrInit ==
    /\ text = <<>>
    /\ typing_mode = "human"
    /\ with_ansi = FALSE
    /\ readable = TRUE
    /\ pc = "HdrIdle"
    /\ out = <<>>
    /\ ts = 0
    /\ blocks = <<>>
    /\ reblocks = <<>>
    /\ blockIdx = 0
    /\ lineIdx = 0
    /\ stage = "start"
    /\ charIdx = 0
    /\ pending = <<>>
    /\ ran = FALSE
    /\ calls = <<>>
    /\ printed = 0
    /\ zeros = 0
    /\ marks = <<>>
    /\ session = 0
    /\ endClock = 0
    /\ ac_header = EmptyDict
    /\ prev_header = EmptyDict
    /\ header_arg = EmptyDict
    /\ environ \in Environs
    /\ wallclock = 0

\* caster.set_header(header=h)
SetHeader(h) ==
    /\ pc \in {"HdrIdle", "HdrSet"}
    /\ header_arg' = h
    /\ prev_header' = ac_header
    /\ ac_header' = set_header(ac_header, h, environ, wallclock)
    /\ pc' = "HdrSet"
    /\ UNCHANGED <<text, typing_mode, with_ansi, readable, out, ts, blocks, reblocks,
                   blockIdx, lineIdx, stage, charIdx, pending, ran, calls, printed, zeros>>
    /\ UNCHANGED <<marks, session, endClock, environ, wallclock>>

\* the wall clock, in whole seconds, moves between two calls (either way:
\* datetime.now() is not monotonic)
Tick ==
    /\ pc \in {"HdrIdle", "HdrSet"}
    /\ \E now \in 0..MaxTicks :
         /\ now # wallclock
         /\ wallclock' = now
    /\ UNCHANGED <<text, typing_mode, with_ansi, readable, pc, out, ts, blocks, reblocks,
                   blockIdx, lineIdx, stage, charIdx, pending, ran, calls, printed, zeros>>
    /\ UNCHANGED <<marks, session, endClock, ac_header, prev_header, header_arg, environ>>

HdrNext == (\E h \in Overrides : SetHeader(h)) \/ Tick

HeaderSpec == HdrInit /\ [][HdrNext]_vars

\* ----------------------------------------------------------- the typist
sub_newline_nospace(line) == SelectSeq(line, LAMBDA c : c # " ")

\* line 200: re.sub('\n', '\r\n', line)
RECURSIVE sub_newline(_)
sub_newline(line) ==
    IF line = <<>> THEN <<>>
    ELSE (IF Head(line) = NL THEN CRLF ELSE <<Head(line)>>) \o sub_newline(Tail(line))

typed_text_no_crlf(line) == sub_newline(line)

\* line 202: the string handed to timed_type, line1 + '\r\n'
typed_text(line) == sub_newline(line) \o CRLF

is_blank_empty_only(line) == line = <<>>

\* line 192: not line.strip()
is_blank(line) == \A i \in 1..Len(line) : line[i] \in Whitespace

\* line 201: delay_func = lambda: (random.random() / 10.0
\*                                if typing_mode == 'human' else 0)
\* the conditional is the body of the lambda, so delay_func is a function
\* object in both typing modes
delay_func(mode) == [callable |-> TRUE, mode |-> mode, value |-> 0]

\* line 112: delay_func == 0 (a function object never equals 0)
delay_func_is_zero(df) == (~df.callable) /\ df.value = 0

call_delay_signed(df) ==
    IF df.callable
    THEN IF df.mode = "human" THEN HumanDelays \cup {-1} ELSE {0}
    ELSE {df.value}

\* line 117: delay = df if type(df) in (float, int) else df()
call_delay(df) ==
    IF df.callable
    THEN IF df.mode = "human" THEN HumanDelays ELSE {0}
    ELSE {df.value}

prompt_cond_every_line(typed, first_line) == typed[1] # "#"

\* lines 136-137: if line[0] != '#': if first_line:
prompt_cond(typed, first_line) == typed[1] # "#" /\ first_line

Event(t, d, s, b, l) == [ts |-> t, data |-> d, src |-> s, blk |-> b, ln |-> l]

HeaderLine == Event(0, <<>>, "header", 0, 0)

write_header_skipped(f, h) == f

\* line 250: f.write('{}\n'.format(json.dumps(self.ac_header)))
write_header(f, h) == Append(f, h)

\* f.write of one event line
write_event(f, e) == Append(f, e)

next_block_skipping(i) == i + 2

\* line 253: the for loop takes the blocks one after the other
next_block(i) == i + 1

\* ------------------------------------------------------------ the session
Init ==
    /\ text \in Strings(ScriptAlphabet, MaxScriptLen)
    /\ typing_mode \in {"instant", "human"}
    /\ with_ansi \in BOOLEAN
    /\ readable \in BOOLEAN
    /\ pc = "Idle"
    /\ out = <<>>
    /\ ts = 0
    /\ blocks = <<>>
    /\ reblocks = <<>>
    /\ blockIdx = 0
    /\ lineIdx = 0
    /\ stage = "start"
    /\ charIdx = 0
    /\ pending = <<>>
    /\ ran = FALSE
    /\ calls = <<>>
    /\ printed = 0
    /\ zeros = 0
    /\ marks = <<>>
    /\ session = 0
    /\ endClock = 0
    /\ ac_header = EmptyDict
    /\ prev_header = EmptyDict
    /\ header_arg = EmptyDict
    /\ environ = DefaultEnviron
    /\ wallclock = 0

\* lines 248-250: set_header, open(output_path, 'w'), the header line
Start ==
    /\ pc = "Idle"
    /\ session' = session + 1
    /\ prev_header' = ac_header
    /\ ac_header' = set_header(ac_header, header_arg, environ, wallclock)
    /\ out' = write_header(<<>>, HeaderLine)
    /\ pc' = "HeaderWritten"
    /\ UNCHANGED <<text, typing_mode, with_ansi, readable, ts, blocks, reblocks,
                   blockIdx, lineIdx, stage, charIdx, pending, ran, calls, printed, zeros>>
    /\ UNCHANGED <<marks, endClock, header_arg, environ, wallclock>>

EnterBlock(i) ==
    IF i <= Len(blocks')
    THEN /\ pc' = "TypingInput"
         /\ blockIdx' = i
         /\ lineIdx' = 1
         /\ calls' = Append(calls, <<"type_input", i>>)
         /\ marks' = Append(marks, Mark("type_input", i, ts))
    ELSE /\ pc' = "Done"
         /\ UNCHANGED <<blockIdx, lineIdx, calls, marks>>

\* lines 251-253: open(input_path), g.read(), block_iter(content)
ReadScript ==
    /\ pc = "HeaderWritten"
    /\ IF readable
       THEN /\ blocks' = block_iter(text)
            /\ EnterBlock(1)
       ELSE /\ pc' = "Failed"
            /\ UNCHANGED <<blocks, blockIdx, lineIdx, calls, marks>>
    /\ UNCHANGED <<text, typing_mode, with_ansi, readable, out, ts, reblocks,
                   stage, charIdx, pending, ran, printed, zeros>>
    /\ UNCHANGED <<session, endClock, ac_header,
                   prev_header, header_arg, environ, wallclock>>

block == blocks[blockIdx]
line == block[lineIdx]

\* lines 192-197: a line of whitespace only
TypeBlankLine ==
    /\ pc = "TypingInput"
    /\ lineIdx <= Len(block)
    /\ is_blank(line)
    /\ out' = write_event(out, Event(ts, CRLF, "blank", blockIdx, lineIdx))
    /\ ts' = ts + OutputPace
    /\ lineIdx' = lineIdx + 1
    /\ UNCHANGED <<text, typing_mode, with_ansi, readable, pc, blocks, reblocks,
                   blockIdx, stage, charIdx, pending, ran, calls, printed, zeros>>
    /\ UNCHANGED <<marks, session, endClock, ac_header,
                   prev_header, header_arg, environ, wallclock>>

\* lines 136-140: the shell prompt before the line
TypePrompt ==
    /\ pc = "TypingInput"
    /\ lineIdx <= Len(block)
    /\ ~is_blank(line)
    /\ stage = "start"
    /\ prompt_cond(typed_text(line), lineIdx = 1)
    /\ out' = write_event(out, Event(ts, <<"$", " ">>, "prompt", blockIdx, lineIdx))
    /\ stage' = "chars"
    /\ UNCHANGED <<text, typing_mode, with_ansi, readable, pc, ts, blocks,
                   reblocks, blockIdx, lineIdx, charIdx, pending, ran, calls, printed, zeros>>
    /\ UNCHANGED <<marks, session, endClock, ac_header,
                   prev_header, header_arg, environ, wallclock>>

accumulate_assign(t, delay) == delay

\* line 121: self.ts += delay
accumulate(t, delay) == t + delay

\* lines 142-147 over Typist.timed_type, lines 112-122 (accumulate=True)
TypeChar ==
    /\ pc = "TypingInput"
    /\ lineIdx <= Len(block)
    /\ ~is_blank(line)
    /\ stage = "chars" \/ ~prompt_cond(typed_text(line), lineIdx = 1)
    /\ LET typed == typed_text(line)
           df == delay_func(typing_mode)
       IN  IF delay_func_is_zero(df)
           THEN /\ out' = write_event(out, Event(ts, typed, "char", blockIdx, lineIdx))
                /\ ts' = ts
                /\ lineIdx' = lineIdx + 1
                /\ stage' = "start"
                /\ charIdx' = 0
                /\ zeros' = zeros
           ELSE \E delay \in call_delay(df) :
                /\ IF df.mode = "human" /\ delay = 0
                   THEN zeros < MaxZeroDelays /\ zeros' = zeros + 1
                   ELSE zeros' = zeros
                /\ ts' = accumulate(ts, delay)
                /\ out' = write_event(out,
                       Event(ts', <<typed[charIdx + 1]>>, "char", blockIdx, lineIdx))
                /\ IF charIdx + 1 = Len(typed)
                   THEN /\ lineIdx' = lineIdx + 1
                        /\ stage' = "start"
                        /\ charIdx' = 0
                   ELSE /\ lineIdx' = lineIdx
                        /\ stage' = "chars"
                        /\ charIdx' = charIdx + 1
    /\ UNCHANGED <<text, typing_mode, with_ansi, readable, pc, blocks, reblocks,
                   blockIdx, pending, ran, calls, printed>>
    /\ UNCHANGED <<marks, session, endClock, ac_header,
                   prev_header, header_arg, environ, wallclock>>

\* line 191: the for loop of type_input is exhausted; line 255 follows
TypeInputReturn ==
    /\ pc = "TypingInput"
    /\ lineIdx > Len(block)
    /\ pc' = "CapturingOutput"
    /\ ran' = FALSE
    /\ calls' = Append(calls, <<"type_output", blockIdx>>)
    /\ marks' = Append(marks, Mark("type_output", blockIdx, ts))
    /\ UNCHANGED <<text, typing_mode, with_ansi, readable, out, ts, blocks,
                   reblocks, blockIdx, lineIdx, stage, charIdx, pending, printed, zeros>>
    /\ UNCHANGED <<session, endClock, ac_header,
                   prev_header, header_arg, environ, wallclock>>

\* lines 225 and 236: self.typist.ts += (time.time() - t0)
advance(t, elapsed) == t + elapsed

line_stamp_after(t) == t + OutputPace

\* lines 228 and 238: ac_line = [self.typist.ts, ...], before the += 0.01
line_stamp(t) == t

\* line 220: '\n'.join(block)
command == join(block, <<NL>>)

\* line 235: line.split() is [] for a command of whitespace only, and
\* subprocess.call([]) raises
argv_empty(cmd) == \A i \in 1..Len(cmd) : cmd[i] \in Whitespace

\* the part of a line after its leading whitespace
RECURSIVE lstrip(_)
lstrip(l) ==
    IF l # <<>> /\ Head(l) \in Whitespace THEN lstrip(Tail(l)) ELSE l

\* line 224: the shell of subprocess.getoutput runs nothing, and so prints
\* nothing, when every line of the command is empty, blank or a comment
runs_nothing(b) ==
    \A l \in 1..Len(b) : lstrip(b[l]) = <<>> \/ Head(lstrip(b[l])) = "#"

\* lines 222-226 (plain) and 234-237 (ANSI): run the command, add the
\* measured duration to the clock, split the captured output into lines
Execute ==
    /\ pc = "CapturingOutput"
    /\ ~ran
    /\ \E s \in Strings(OutAlphabet, MaxOutLen - printed),
          elapsed \in ElapsedTimes, found \in BOOLEAN :
          /\ (~with_ansi /\ runs_nothing(block)) => s = <<>>
          /\ IF with_ansi /\ (argv_empty(command) \/ ~found)
             THEN /\ pc' = "Failed"
                  /\ UNCHANGED <<ts, pending, ran, printed, marks>>
             ELSE /\ ts' = advance(ts, elapsed)
                  /\ marks' = Append(marks, Mark("executed", blockIdx, ts'))
                  /\ printed' = printed + Len(s)
                  /\ pending' = IF with_ansi THEN splitlines(s)
                                ELSE IF s # <<>> THEN split(s, NL) ELSE <<>>
                  /\ ran' = TRUE
                  /\ pc' = pc
    /\ UNCHANGED <<text, typing_mode, with_ansi, readable, out, blocks, reblocks,
                   blockIdx, lineIdx, stage, charIdx, calls, zeros>>
    /\ UNCHANGED <<session, endClock, ac_header,
                   prev_header, header_arg, environ, wallclock>>

\* lines 228-231 and 238-241: one captured line
WriteOutputLine ==
    /\ pc = "CapturingOutput"
    /\ ran
    /\ pending # <<>>
    /\ out' = write_event(out,
           Event(line_stamp(ts), Head(pending) \o CRLF, "out", blockIdx, 0))
    /\ ts' = ts + OutputPace
    /\ pending' = Tail(pending)
    /\ UNCHANGED <<text, typing_mode, with_ansi, readable, pc, blocks, reblocks,
                   blockIdx, lineIdx, stage, charIdx, ran, calls, printed, zeros>>
    /\ UNCHANGED <<marks, session, endClock, ac_header,
                   prev_header, header_arg, environ, wallclock>>

\* type_output returns; line 253 takes the next block or the loop ends
TypeOutputReturn ==
    /\ pc = "CapturingOutput"
    /\ ran
    /\ pending = <<>>
    /\ ran' = FALSE
    /\ blocks' = blocks
    /\ EnterBlock(next_block(blockIdx))
    /\ UNCHANGED <<text, typing_mode, with_ansi, readable, out, ts, reblocks,
                   stage, charIdx, pending, printed, zeros>>
    /\ UNCHANGED <<session, endClock, ac_header,
                   prev_header, header_arg, environ, wallclock>>

Next ==
    \/ Start
    \/ ReadScript
    \/ TypeBlankLine
    \/ TypePrompt
    \/ TypeChar
    \/ TypeInputReturn
    \/ Execute
    \/ WriteOutputLine
    \/ TypeOutputReturn

Spec == Init /\ [][Next]_vars

\* ------------------------------ record_screencast again on the same Caster
\* line 255 is passed and record_screencast is called once more with the same
\* arguments: self.typist, and with it the clock ts, is the one of line 167
RecordAgain ==
    /\ pc = "Done"
    /\ session < MaxRecordings
    /\ pc' = "Idle"
    /\ endClock' = ts
    /\ blocks' = <<>>
    /\ blockIdx' = 0
    /\ lineIdx' = 0
    /\ calls' = <<>>
    /\ marks' = <<>>
    /\ printed' = 0
    /\ UNCHANGED <<text, typing_mode, with_ansi, readable, out, ts, reblocks,
                   stage, charIdx, pending, ran, zeros>>
    /\ UNCHANGED <<session, ac_header, prev_header, header_arg, environ, wallclock>>

RerunNext == Next \/ RecordAgain

RerunSpec == Init /\ [][RerunNext]_vars

\* ================================================================ claims
EventIdx == {i \in 1..Len(out) : out[i].src # "header"}
Segmented == pc \in {"Segmented", "Resegmented"}

\* C1: the timestamps of the events written to the output, in write order,
\* are non-decreasing, and the first event's timestamp is >= 0.
C1_TimestampsNonDecreasing ==
    /\ \A i \in EventIdx : \A j \in EventIdx : i < j => out[i].ts <= out[j].ts
    /\ \A i \in EventIdx : (\A j \in EventIdx : i <= j) => out[i].ts >= 0

\* C2: the header is written exactly once and is the first line of the
\* output: nothing is written before it and no second header follows.
C2_HeaderOnceAndFirst ==
    /\ pc # "Idle" => Len(out) >= 1
    /\ \A i \in 1..Len(out) : out[i].src = "header" <=> i = 1

C2_Witness ==
    /\ pc = "Done"
    /\ Len(out) >= 3
    /\ out[1].src = "header"

\* the calls record_screencast makes for n blocks: type_input(1),
\* type_output(1), type_input(2), type_output(2), ...
ExpectedCalls(n) ==
    [k \in 1..(2 * n) |->
        IF k % 2 = 1 THEN <<"type_input", (k + 1) \div 2>>
                     ELSE <<"type_output", k \div 2>>]

IsPrefix(p, q) == Len(p) <= Len(q) /\ \A k \in 1..Len(p) : p[k] = q[k]

\* the place of an event in the session: block by block, and inside a
\* block the typing events (prompt, characters, blank line) before the
\* output events
Rank(e) == 2 * e.blk + (IF e.src = "out" THEN 1 ELSE 0)

C3_Order ==
    /\ IsPrefix(calls, ExpectedCalls(Len(blocks)))
    /\ pc = "Done" => calls = ExpectedCalls(Len(blocks))
    /\ pc = "TypingInput" =>
          calls # <<>> /\ calls[Len(calls)] = <<"type_input", blockIdx>>
    /\ pc = "CapturingOutput" =>
          calls # <<>> /\ calls[Len(calls)] = <<"type_output", blockIdx>>
    /\ pc \in {"Idle", "HeaderWritten"} => calls = <<>> /\ EventIdx = {}
    /\ \A i \in EventIdx : out[i].blk \in 1..Len(blocks)
    /\ \A i \in EventIdx : i + 1 \in EventIdx =>
          Rank(out[i]) <= Rank(out[i + 1])

C3_Step ==
    <<pc, pc'>> \in
        {<<"Idle", "HeaderWritten">>,
         <<"HeaderWritten", "TypingInput">>, <<"HeaderWritten", "Done">>,
         <<"HeaderWritten", "Failed">>,
         <<"TypingInput", "TypingInput">>, <<"TypingInput", "CapturingOutput">>,
         <<"CapturingOutput", "CapturingOutput">>,
         <<"CapturingOutput", "TypingInput">>, <<"CapturingOutput", "Done">>,
         <<"CapturingOutput", "Failed">>}

\* C3: the session goes Idle -> HeaderWritten -> (TypingInput ->
\* CapturingOutput)* -> Done (an exception cuts it short); blocks are taken
\* in script order, each is typed once and executed once, the typing events
\* of a block come before its output events, and the events of block i
\* come before those of block i+1.
C3_SessionOrder == []C3_Order /\ [][C3_Step]_vars

C3_Witness ==
    /\ pc = "Done"
    /\ Len(blocks) = 2
    /\ \E i \in EventIdx : \E j \in EventIdx : \E k \in EventIdx :
          /\ i < j /\ j < k
          /\ out[i].blk = 1 /\ out[i].src = "char"
          /\ out[j].blk = 1 /\ out[j].src = "out"
          /\ out[k].blk = 2 /\ out[k].src = "char"

\* the number of maximal groups of consecutive non-blank lines
RECURSIVE num_groups(_, _)
num_groups(lines, inside) ==
    IF lines = <<>> THEN 0
    ELSE IF Head(lines) = <<>> THEN num_groups(Tail(lines), FALSE)
    ELSE (IF inside THEN 0 ELSE 1) + num_groups(Tail(lines), TRUE)

\* C4: block_iter never yields an empty block, and the number of blocks
\* equals the number of maximal groups of non-blank lines.
C4_NoEmptyBlock ==
    Segmented =>
        /\ \A b \in 1..Len(blocks) : blocks[b] # <<>>
        /\ Len(blocks) = num_groups(splitlines(text), FALSE)

NoBlankLine(t) == \A l \in 1..Len(splitlines(t)) : splitlines(t)[l] # <<>>

\* C5 as stated: every text without a blank line, the empty text included,
\* yields exactly one block, equal to the list of its lines.
C5_Original ==
    (Segmented /\ NoBlankLine(text)) => blocks = <<splitlines(text)>>

\* C5: a non-empty text without a blank line yields exactly one block,
\* equal to the list of its lines; the empty text yields no block.
C5_OneBlock ==
    /\ (Segmented /\ NoBlankLine(text) /\ text # <<>>) =>
           blocks = <<splitlines(text)>>
    /\ (Segmented /\ text = <<>>) => blocks = <<>>

C5_Witness ==
    /\ Segmented
    /\ NoBlankLine(text)
    /\ Len(splitlines(text)) >= 2
    /\ blocks = <<splitlines(text)>>

\* C6: joining the blocks with a single blank line between consecutive
\* blocks and segmenting the result gives the same blocks.
C6_RoundTrip == pc = "Resegmented" => reblocks = blocks

\* C7: with typing mode 'instant' a non-blank line is written as exactly
\* one event, whose data is the whole line followed by "\r\n", at the
\* current clock value; a one-line script whose command prints one line
\* gives four output lines.
C7_InstantWholeLine ==
    typing_mode = "instant" =>
        /\ \A i \in EventIdx : out[i].src = "char" =>
              /\ out[i].data = typed_text(blocks[out[i].blk][out[i].ln])
              /\ \A j \in EventIdx :
                    (out[j].src = "char" /\ out[j].blk = out[i].blk
                        /\ out[j].ln = out[i].ln) => j = i
        /\ (pc = "Done" /\ Len(blocks) = 1 /\ Len(blocks[1]) = 1
               /\ ~is_blank(blocks[1][1]) /\ blocks[1][1][1] # "#"
               /\ Cardinality({i \in EventIdx : out[i].src = "out"}) = 1)
           => Len(out) = 4

\* line l of block b has been typed completely
LineDone(b, l) ==
    /\ b \in 1..Len(blocks)
    /\ l \in 1..Len(blocks[b])
    /\ \/ b < blockIdx
       \/ b = blockIdx /\ (pc # "TypingInput" \/ l < lineIdx)

DoneLines ==
    {bl \in (1..Len(blocks)) \X (1..MaxScriptLen + 1) :
        LineDone(bl[1], bl[2]) /\ ~is_blank(blocks[bl[1]][bl[2]])}

CharEvents(b, l) ==
    {i \in EventIdx : out[i].src = "char" /\ out[i].blk = b /\ out[i].ln = l}
PromptEvents(b, l) ==
    {i \in EventIdx : out[i].src = "prompt" /\ out[i].blk = b /\ out[i].ln = l}

\* C8 as stated: in 'human' mode a line of n characters gets exactly n
\* character events, plus one prompt event when it is the first line.
C8_Original ==
    typing_mode = "human" =>
        \A bl \in DoneLines :
            /\ Cardinality(CharEvents(bl[1], bl[2])) = Len(blocks[bl[1]][bl[2]])
            /\ Cardinality(PromptEvents(bl[1], bl[2])) = IF bl[2] = 1 THEN 1 ELSE 0

\* C8: in 'human' mode a line of n characters that is not whitespace only
\* gets exactly n + 2 character events (its n characters, then "\r" and
\* "\n"), plus one prompt event when it is the first line of its block and
\* does not start with '#'.
C8_HumanCharEvents ==
    typing_mode = "human" =>
        \A bl \in DoneLines :
            /\ Cardinality(CharEvents(bl[1], bl[2])) = Len(blocks[bl[1]][bl[2]]) + 2
            /\ Cardinality(PromptEvents(bl[1], bl[2])) =
                  IF bl[2] = 1 /\ blocks[bl[1]][bl[2]][1] # "#" THEN 1 ELSE 0

C8_Witness ==
    /\ typing_mode = "human"
    /\ \E bl \in DoneLines :
          /\ Len(blocks[bl[1]][bl[2]]) = 3
          /\ Cardinality(CharEvents(bl[1], bl[2])) = 5
          /\ Cardinality(PromptEvents(bl[1], bl[2])) = 1

\* a character event written right after the prompt or a character of the
\* same block
AfterTyped(i) ==
    /\ i \in EventIdx
    /\ i - 1 \in EventIdx
    /\ out[i].src = "char"
    /\ out[i - 1].src \in {"prompt", "char"}
    /\ out[i - 1].blk = out[i].blk

\* C9 as stated: in 'human' mode every character event has a timestamp
\* strictly greater than that of the event written just before it.
C9_Original ==
    typing_mode = "human" =>
        \A i \in 1..Len(out) : AfterTyped(i) => out[i].ts > out[i - 1].ts

\* C9: in 'human' mode every character event has a timestamp greater than
\* or equal to that of the prompt or character event written just before
\* it in the same block; a delay of 0 gives an equal timestamp.
C9_HumanNonDecreasing ==
    typing_mode = "human" =>
        \A i \in 1..Len(out) : AfterTyped(i) => out[i].ts >= out[i - 1].ts

C9_Witness ==
    /\ typing_mode = "human"
    /\ \E i \in 1..Len(out) : AfterTyped(i) /\ out[i].ts = out[i - 1].ts
    /\ \E i \in 1..Len(out) : AfterTyped(i) /\ out[i].ts > out[i - 1].ts

C10_Step ==
    (Len(out') = Len(out) + 1 /\ out'[Len(out')].src = "prompt") =>
        LET e == out'[Len(out')]
        IN  /\ e.data = <<"$", " ">>
            /\ e.ts = ts
            /\ ts' = ts
            /\ e.ln = 1
            /\ blocks[e.blk][1][1] # "#"
            /\ \A i \in EventIdx : ~(out[i].src = "prompt" /\ out[i].blk = e.blk)
            /\ \A i \in EventIdx : out[i].blk # e.blk

\* C10: the prompt event "$ " is written only before the first line of a
\* block, at most once per block, at the clock's current value and without
\* advancing the clock, and not when that line starts with '#'; later
\* lines of a block get no prompt event.
C10_PromptOnlyFirstLine == [][C10_Step]_vars

C10_Witness ==
    \E i \in EventIdx : \E j \in EventIdx : \E k \in EventIdx :
        /\ out[i].src = "prompt"
        /\ i < j /\ j < k
        /\ out[i].src = "prompt" /\ out[i].ln = 1
        /\ out[j].src = "char" /\ out[j].blk = out[i].blk /\ out[j].ln = 1
        /\ out[k].src = "char" /\ out[k].blk = out[i].blk /\ out[k].ln = 2

\* the clock when ev happened for block b
ClockAt(ev, b) ==
    marks[CHOOSE k \in 1..Len(marks) : marks[k].ev = ev /\ marks[k].blk = b].clock
OutEvents(b) == {i \in EventIdx : out[i].src = "out" /\ out[i].blk = b}
TypedEvents(b, l) ==
    {i \in EventIdx : out[i].src # "out" /\ out[i].blk = b /\ out[i].ln = l}

\* type_output has run the command of the current block and written all
\* that it printed
OutputWritten == pc = "CapturingOutput" /\ ran /\ pending = <<>>

\* C11: for a block whose command prints nothing, type_output writes no
\* output event, the input events of the block are written, and the clock
\* after the block is not lower than before it.
C11_NoOutputBlock ==
    (OutputWritten /\ OutEvents(blockIdx) = {}) =>
        /\ \A l \in 1..Len(block) : TypedEvents(blockIdx, l) # {}
        /\ ts >= ClockAt("type_input", blockIdx)

\* the first event written for its block
FirstOfBlock(i) ==
    /\ i \in EventIdx
    /\ i - 1 \in EventIdx => out[i - 1].blk < out[i].blk

\* C12 as stated: the clock after a block is strictly less than the clock
\* at which the next block writes its first event.
C12_Original ==
    \A i \in 1..Len(out) : (FirstOfBlock(i) /\ out[i].blk >= 2) =>
        ClockAt("type_input", out[i].blk) < out[i].ts

\* C12: the clock after a block is less than or equal to the timestamp of
\* the first event of the next block (equal when that event is a prompt, a
\* blank-line event or a character typed with delay 0).
C12_BlocksNonDecreasing ==
    \A i \in 1..Len(out) : (FirstOfBlock(i) /\ out[i].blk >= 2) =>
        ClockAt("type_input", out[i].blk) <= out[i].ts

C12_Witness ==
    \E i \in 1..Len(out) :
        /\ FirstOfBlock(i)
        /\ out[i].blk = 2
        /\ OutEvents(1) # {}
        /\ TypedEvents(1, 1) # {}
        /\ ClockAt("type_input", 2) = out[i].ts
        /\ ClockAt("type_input", 2) > ClockAt("type_input", 1)

\* C13: when the script cannot be read, record_screencast fails with
\* nothing written: no output file content, no header line.
C13_NothingWritten == (pc = "Failed" /\ ~readable) => out = <<>>

\* C14: the clock is never lowered: a negative delta is refused (the
\* session fails) and leaves the clock unchanged.
C14_ClockNeverLowered == [][ts' >= ts]_vars

\* C16: after the command finished at clock T (the clock at the call plus
\* the measured duration), output line k is stamped T + (k-1)*10ms and the
\* clock after n lines is T + n*10ms.
C16_OutputTiming ==
    (pc = "CapturingOutput" /\ ran) =>
        LET T == ClockAt("executed", blockIdx)
            n == Cardinality(OutEvents(blockIdx))
        IN  /\ ts = T + n * OutputPace
            /\ \A i \in OutEvents(blockIdx) :
                  /\ i > Len(out) - n
                  /\ out[i].ts = T + (i - (Len(out) - n) - 1) * OutputPace

C16_Witness ==
    /\ OutputWritten
    /\ Cardinality(OutEvents(blockIdx)) = 2
    /\ ts = ClockAt("executed", blockIdx) + 2 * OutputPace
    /\ ClockAt("executed", blockIdx) > ClockAt("type_output", blockIdx)

\* the data of the character events of line l of block b written at
\* positions 1..i of the output, concatenated in write order
RECURSIVE ConcatChars(_, _, _)
ConcatChars(i, b, l) ==
    IF i = 0 THEN <<>>
    ELSE ConcatChars(i - 1, b, l) \o
            (IF out[i].src = "char" /\ out[i].blk = b /\ out[i].ln = l
             THEN out[i].data ELSE <<>>)

\* C18: for every typed line that is not whitespace only, in either typing
\* mode, the data of its events without the prompt, concatenated in write
\* order, is the line followed by "\r\n".
C18_LineDataComplete ==
    \A bl \in DoneLines :
        ConcatChars(Len(out), bl[1], bl[2]) = blocks[bl[1]][bl[2]] \o CRLF

C18_Witness ==
    \E bl \in DoneLines :
        /\ Len(blocks[bl[1]][bl[2]]) = 2
        /\ blocks[bl[1]][bl[2]][1] # blocks[bl[1]][bl[2]][2]
        /\ Cardinality(CharEvents(bl[1], bl[2])) = 4
        /\ ConcatChars(Len(out), bl[1], bl[2]) = blocks[bl[1]][bl[2]] \o CRLF

\* a line that consists of whitespace only
OnlyWhitespace(l) == \A i \in 1..Len(l) : l[i] \in {" ", "\t"}

BlankDoneLines ==
    {bl \in (1..Len(blocks)) \X (1..MaxScriptLen + 1) :
        LineDone(bl[1], bl[2]) /\ OnlyWhitespace(blocks[bl[1]][bl[2]])}

C20_Lines ==
    \A bl \in BlankDoneLines :
        /\ Cardinality(TypedEvents(bl[1], bl[2])) = 1
        /\ \A i \in TypedEvents(bl[1], bl[2]) :
              out[i].src = "blank" /\ out[i].data = CRLF

C20_Step ==
    (Len(out') = Len(out) + 1 /\ out'[Len(out')].src = "blank") =>
        /\ out'[Len(out')].ts = ts
        /\ out'[Len(out')].data = CRLF
        /\ ts' = ts + OutputPace

\* C20: a line of whitespace only gets exactly one event, with data "\r\n"
\* and the current clock value, after which the clock advances by 10 ms;
\* it gets no prompt event and no character event.
C20_WhitespaceLine == []C20_Lines /\ [][C20_Step]_vars

C20_Witness ==
    \E bl \in BlankDoneLines :
        /\ Len(blocks[bl[1]][bl[2]]) >= 1
        /\ bl[2] = 1
        /\ Cardinality(TypedEvents(bl[1], bl[2])) = 1


\* the blocks one after the other, as one list of lines
RECURSIVE concat(_)
concat(bs) == IF bs = <<>> THEN <<>> ELSE Head(bs) \o concat(Tail(bs))

non_blank_lines(t) == SelectSeq(splitlines(t), LAMBDA l : l # <<>>)

\* C17: every block block_iter yields contains no blank (empty) line, and
\* the yielded blocks, one after the other, are exactly the non-blank lines
\* of the script, verbatim and in their original order.
C17_BlocksKeepLines ==
    Segmented =>
        /\ \A b \in 1..Len(blocks) : \A l \in 1..Len(blocks[b]) : blocks[b][l] # <<>>
        /\ concat(blocks) = non_blank_lines(text)

\* a script with a whitespace-only line, blank lines and two blocks of lines
C17_Witness ==
    /\ Segmented
    /\ Len(splitlines(text)) > Len(non_blank_lines(text))
    /\ \E b1, b2 \in 1..Len(blocks) : b1 < b2 /\ blocks[b1] # <<>> /\ blocks[b2] # <<>>
    /\ \E b \in 1..Len(blocks) : \E l \in 1..Len(blocks[b]) : blocks[b][l] = <<" ">>


\* the fields set_header always writes
HeaderFields == {"version", "width", "height", "timestamp", "idle_time_limit", "env"}

\* after every call the header holds the fields of that call only
C15_Fresh ==
    pc = "HdrSet" => DOMAIN ac_header = HeaderFields \cup DOMAIN header_arg

\* a call of set_header (the only step that leaves the wall clock alone):
\* its timestamp is the time of this call, and after an earlier call with
\* the same overrides every other field is as it was
C15_Step ==
    (pc' = "HdrSet" /\ wallclock' = wallclock) =>
        /\ "timestamp" \notin DOMAIN header_arg' => ac_header'["timestamp"] = wallclock'
        /\ (pc = "HdrSet" /\ header_arg' = header_arg) =>
               /\ DOMAIN ac_header' = DOMAIN ac_header
               /\ \A k \in DOMAIN ac_header' \ {"timestamp"} : ac_header'[k] = ac_header[k]

\* C15: set_header called twice with the same overrides, terminal size and
\* environment gives two headers that agree on every field except
\* 'timestamp', and the second header keeps nothing of the first: it holds
\* the fields of the second call only, with the timestamp of the second call.
C15_HeaderIdempotent == []C15_Fresh /\ [][C15_Step]_vars

\* two calls with a title override, one second apart: the headers differ in
\* the timestamp only
C15_Witness ==
    /\ pc = "HdrSet"
    /\ DOMAIN header_arg = {"title"}
    /\ DOMAIN prev_header = DOMAIN ac_header
    /\ \A k \in DOMAIN ac_header \ {"timestamp"} : prev_header[k] = ac_header[k]
    /\ prev_header["timestamp"] # ac_header["timestamp"]


\* C19: the clock is 0 at construction and is not reset by a second
\* record_screencast on the same Caster, so every event of the second
\* recording has a timestamp >= the clock the first recording ended with.
C19_SecondRecording ==
    /\ session = 0 => ts = 0
    /\ session >= 2 => \A i \in EventIdx : out[i].ts >= endClock

====
